---- MODULE Spec2Model ----
(***************************************************************************)
(* Model of the two request handlers of the storefront API:               *)
(*   src/src/app/api/payment/iyzico/initialize/route.ts  (POST)           *)
(*   src/src/app/api/customer/magic-login/route.ts       (POST)           *)
(*                                                                         *)
(* Prices and amounts are JavaScript numbers, i.e. IEEE-754 binary64      *)
(* values.  The first part of the module is the arithmetic the handlers   *)
(* use on them (parseFloat of a decimal, -, Math.abs, *, +, >), computed  *)
(* with round-to-nearest-even on a 53 bit significand.  A decimal with    *)
(* two fraction digits is written as its number of cents.                 *)
(***************************************************************************)
EXTENDS Integers, Sequences, FiniteSets, TLC

\* ------------------------------------------------------------------------
\* Natural numbers of any size: little-endian sequences of limbs, no high
\* zero limb (zero is <<>>).
\* ------------------------------------------------------------------------

LimbBits == 15

Base == 2^LimbBits

Limb(a, i) == IF i <= Len(a) THEN a[i] ELSE 0

RECURSIVE Norm(_)
Norm(a) ==
    IF a = <<>> THEN <<>>
    ELSE IF a[Len(a)] = 0 THEN Norm(SubSeq(a, 1, Len(a) - 1))
    ELSE a

RECURSIVE FromInt(_)
FromInt(n) == IF n = 0 THEN <<>> ELSE <<n % Base>> \o FromInt(n \div Base)

RECURSIVE BAddC(_, _, _, _)
BAddC(a, b, i, c) ==
    IF i > Len(a) /\ i > Len(b)
    THEN (IF c = 0 THEN <<>> ELSE <<c>>)
    ELSE LET s == Limb(a, i) + Limb(b, i) + c
         IN  <<s % Base>> \o BAddC(a, b, i + 1, s \div Base)

BAdd(a, b) == BAddC(a, b, 1, 0)

\* a - b for a >= b
RECURSIVE BSubC(_, _, _, _)
BSubC(a, b, i, c) ==
    IF i > Len(a) THEN <<>>
    ELSE LET s == a[i] - Limb(b, i) - c
         IN  IF s < 0 THEN <<s + Base>> \o BSubC(a, b, i + 1, 1)
             ELSE <<s>> \o BSubC(a, b, i + 1, 0)

BSub(a, b) == Norm(BSubC(a, b, 1, 0))

RECURSIVE BCmpAt(_, _, _)
BCmpAt(a, b, i) ==
    IF i = 0 THEN 0
    ELSE IF a[i] > b[i] THEN 1
    ELSE IF a[i] < b[i] THEN -1
    ELSE BCmpAt(a, b, i - 1)

\* -1, 0, 1 as a < b, a = b, a > b
BCmp(a, b) ==
    IF Len(a) > Len(b) THEN 1
    ELSE IF Len(a) < Len(b) THEN -1
    ELSE BCmpAt(a, b, Len(a))

\* a * k for 0 <= k <= Base
RECURSIVE BMulSmallC(_, _, _, _)
BMulSmallC(a, k, i, c) ==
    IF i > Len(a)
    THEN (IF c = 0 THEN <<>> ELSE <<c>>)
    ELSE LET p == a[i] * k + c
         IN  <<p % Base>> \o BMulSmallC(a, k, i + 1, p \div Base)

BMulSmall(a, k) == Norm(BMulSmallC(a, k, 1, 0))

Zeros(n) == [i \in 1..n |-> 0]

RECURSIVE BMulAt(_, _, _)
BMulAt(a, b, i) ==
    IF i > Len(b) THEN <<>>
    ELSE BAdd(IF b[i] = 0 THEN <<>> ELSE Zeros(i - 1) \o BMulSmall(a, b[i]),
              BMulAt(a, b, i + 1))

BMul(a, b) == IF a = <<>> THEN <<>> ELSE BMulAt(a, b, 1)

\* quotient and remainder of a by 1 <= k <= Base
RECURSIVE BDivSmallAt(_, _, _, _)
BDivSmallAt(a, k, i, r) ==
    IF i = 0 THEN [q |-> <<>>, r |-> r]
    ELSE LET cur  == r * Base + a[i]
             rest == BDivSmallAt(a, k, i - 1, cur % k)
         IN  [q |-> rest.q \o <<cur \div k>>, r |-> rest.r]

BDivSmall(a, k) ==
    LET d == BDivSmallAt(a, k, Len(a), 0) IN [q |-> Norm(d.q), r |-> d.r]

BShl(a, s) ==
    IF a = <<>> THEN <<>>
    ELSE Zeros(s \div LimbBits) \o BMulSmall(a, 2^(s % LimbBits))

BShr(a, s) ==
    IF s \div LimbBits >= Len(a) THEN <<>>
    ELSE BDivSmall(SubSeq(a, (s \div LimbBits) + 1, Len(a)), 2^(s % LimbBits)).q

RECURSIVE BitLenSmall(_)
BitLenSmall(n) == IF n = 0 THEN 0 ELSE 1 + BitLenSmall(n \div 2)

BitLen(a) ==
    IF a = <<>> THEN 0 ELSE (Len(a) - 1) * LimbBits + BitLenSmall(a[Len(a)])

BIsOdd(a) == a # <<>> /\ a[1] % 2 = 1

RECURSIVE TrailingZerosSmall(_)
TrailingZerosSmall(n) == IF n % 2 = 1 THEN 0 ELSE 1 + TrailingZerosSmall(n \div 2)

RECURSIVE TrailingZeros(_)
TrailingZeros(a) ==
    IF a[1] = 0 THEN LimbBits + TrailingZeros(Tail(a))
    ELSE TrailingZerosSmall(a[1])

\* ------------------------------------------------------------------------
\* JavaScript numbers >= 0: [m, e] is m * 2^e with m < 2^53; m is odd, or
\* the number is zero ([m |-> <<>>, e |-> 0]).
\* ------------------------------------------------------------------------

MantBits == 53

FZero == [m |-> <<>>, e |-> 0]

Canon(n, e) ==
    IF n = <<>> THEN FZero
    ELSE LET z == TrailingZeros(n) IN [m |-> BShr(n, z), e |-> e + z]

\* n * 2^e (plus, when sticky, a positive amount below 2^e) rounded to the
\* nearest number, ties to even
FRound(n, e, sticky) ==
    LET len == BitLen(n) IN
    IF len <= MantBits THEN Canon(n, e)
    ELSE LET t    == len - MantBits
             q    == BShr(n, t)
             r    == BSub(n, BShl(q, t))
             c    == BCmp(r, BShl(<<1>>, t - 1))
             up   == c = 1 \/ (c = 0 /\ (sticky \/ BIsOdd(q)))
         IN  Canon(IF up THEN BAdd(q, <<1>>) ELSE q, e + t)

MinExp(a, b) == IF a.e < b.e THEN a.e ELSE b.e

Aligned(a, b) == BShl(a.m, a.e - MinExp(a, b))

FCmp(a, b) == BCmp(Aligned(a, b), Aligned(b, a))

FGt(a, b) == FCmp(a, b) = 1

\* a + b
FAdd(a, b) == FRound(BAdd(Aligned(a, b), Aligned(b, a)), MinExp(a, b), FALSE)

\* Math.abs(a - b)
FAbsDiff(a, b) ==
    IF FCmp(a, b) >= 0
    THEN FRound(BSub(Aligned(a, b), Aligned(b, a)), MinExp(a, b), FALSE)
    ELSE FRound(BSub(Aligned(b, a), Aligned(a, b)), MinExp(a, b), FALSE)

\* a * b
FMul(a, b) == FRound(BMul(a.m, b.m), a.e + b.e, FALSE)

ScaleBits == 70

\* the number a decimal literal of `cents` hundredths denotes (JSON.parse,
\* parseFloat, a numeric literal of the source)
Dec(cents) ==
    LET d == BDivSmall(BShl(FromInt(cents), ScaleBits), 100)
    IN  FRound(d.q, 0 - ScaleBits, d.r # 0)

\* ------------------------------------------------------------------------
\* Strings are sequences of one-character strings.
\* ------------------------------------------------------------------------

DigitChars == <<"0","1","2","3","4","5","6","7","8","9">>

IsDigit(c) == \E d \in 1..10 : DigitChars[d] = c

DigitVal(c) == (CHOOSE d \in 1..10 : DigitChars[d] = c) - 1

HexChars ==
    {"0","1","2","3","4","5","6","7","8","9","a","b","c","d","e","f",
     "A","B","C","D","E","F"}

\* String.prototype.startsWith
startsWith(s, p) == Len(s) >= Len(p) /\ SubSeq(s, 1, Len(p)) = p

\* String.prototype.split on a one-character separator: the pieces between
\* the separators, in order
SepPositions(s, sep) == {k \in 1..Len(s) : s[k] = sep}

NthSep(s, sep, n) ==
    IF n = 0 THEN 0
    ELSE IF n > Cardinality(SepPositions(s, sep)) THEN Len(s) + 1
    ELSE CHOOSE p \in SepPositions(s, sep) :
            Cardinality({q \in SepPositions(s, sep) : q < p}) = n - 1

split(s, sep) ==
    [n \in 1..(Cardinality(SepPositions(s, sep)) + 1) |->
        SubSeq(s, NthSep(s, sep, n - 1) + 1, NthSep(s, sep, n) - 1)]

\* s without its leading blanks
SkipSpace(s) ==
    LET n == CHOOSE k \in 0..Len(s) :
                /\ \A j \in 1..k : s[j] = " "
                /\ (k < Len(s) => s[k + 1] # " ")
    IN  SubSeq(s, n + 1, Len(s))

\* the longest prefix of s made of decimal digits
DigitRun(s) ==
    LET n == CHOOSE k \in 0..Len(s) :
                /\ \A j \in 1..k : IsDigit(s[j])
                /\ (k < Len(s) => ~IsDigit(s[k + 1]))
    IN  SubSeq(s, 1, n)

RECURSIVE DecimalValue(_, _)
DecimalValue(ds, acc) ==
    IF ds = <<>> THEN acc
    ELSE DecimalValue(Tail(ds), acc * 10 + DigitVal(Head(ds)))

NaN == [nan |-> TRUE]

\* parseInt(s, 10): leading blanks, an optional sign, then the longest run
\* of decimal digits; whatever follows the run is ignored
parseInt(s) ==
    LET t   == SkipSpace(s)
        neg == t # <<>> /\ Head(t) = "-"
        u   == IF t # <<>> /\ Head(t) \in {"+", "-"} THEN Tail(t) ELSE t
        ds  == DigitRun(u)
    IN  IF ds = <<>> THEN NaN
        ELSE [nan |-> FALSE,
              n   |-> IF neg THEN 0 - DecimalValue(ds, 0)
                      ELSE DecimalValue(ds, 0)]

\* /^[0-9a-f]{8}-[0-9a-f]{4}-[0-9a-f]{4}-[0-9a-f]{4}-[0-9a-f]{12}$/i
uuidPattern(s) ==
    /\ Len(s) = 36
    /\ \A k \in 1..36 :
          IF k \in {9, 14, 19, 24} THEN s[k] = "-" ELSE s[k] \in HexChars

cartPrefix == <<"c","a","r","t","_">>

NullId == [kind |-> "null"]

NumberId(n) == [kind |-> "number", n |-> n]

StringId(s) == [kind |-> "string", s |-> s]

parseCartItemId(cartItemId) ==
    LET parts     == split(cartItemId, "_")
        legacyId  == parseInt(parts[2])
        numericId == parseInt(cartItemId)
    IN  IF startsWith(cartItemId, cartPrefix) /\ Len(parts) >= 2
        THEN IF ~legacyId.nan /\ legacyId.n > 0
             THEN NumberId(legacyId.n)
             ELSE StringId(parts[2])
        ELSE IF ~numericId.nan /\ numericId.n > 0
             THEN NumberId(numericId.n)
        ELSE IF uuidPattern(cartItemId) THEN StringId(cartItemId)
        ELSE NullId

\* !actualProductId
Falsy(actualProductId) ==
    \/ actualProductId.kind = "null"
    \/ actualProductId.kind = "string" /\ actualProductId.s = <<>>

\* ------------------------------------------------------------------------
\* The products table and the requests the handler is run on.
\* ------------------------------------------------------------------------

\* "3fa85f64-5717-4562-b3fc-2c963f66afa6"
uuidA ==
    <<"3","f","a","8","5","f","6","4","-","5","7","1","7","-","4","5","6",
      "2","-","b","3","f","c","-","2","c","9","6","3","f","6","6","a","f",
      "a","6">>

\* "a1b2c3d4-e5f6-4789-8abc-def012345678"
uuidB ==
    <<"a","1","b","2","c","3","d","4","-","e","5","f","6","-","4","7","8",
      "9","-","8","a","b","c","-","d","e","f","0","1","2","3","4","5","6",
      "7","8">>

\* "0b6f7c1e-2d3a-4e5f-9a8b-7c6d5e4f3a2b"
uuidC ==
    <<"0","b","6","f","7","c","1","e","-","2","d","3","a","-","4","e","5",
      "f","-","9","a","8","b","-","7","c","6","d","5","e","4","f","3","a",
      "2","b">>

\* "d4e5f6a7-b8c9-4d0e-8f1a-2b3c4d5e6f70"
uuidD ==
    <<"d","4","e","5","f","6","a","7","-","b","8","c","9","-","4","d","0",
      "e","-","8","f","1","a","-","2","b","3","c","4","d","5","e","6","f",
      "7","0">>

\* rows of products: id, legacy_id, name, price (a decimal, in cents)
Catalog ==
    { [id |-> uuidA, legacy_id |-> 42, name |-> "Kahve", price |-> 10000],
      [id |-> uuidB, legacy_id |-> 3,  name |-> "Cay",   price |-> 100],
      [id |-> uuidC, legacy_id |-> 77, name |-> "Simit", price |-> 10],
      [id |-> uuidD, legacy_id |-> 78, name |-> "Su",    price |-> 20] }

NoData == [data |-> "null"]

\* .single(): the row when exactly one matches, otherwise no data
single(rows) == IF Cardinality(rows) = 1 THEN CHOOSE p \in rows : TRUE ELSE NoData

\* .from('products').select(..).eq('legacy_id', n).single()
selectByLegacyId(n) == single({p \in Catalog : p.legacy_id = n})

\* .from('products').select(..).eq('id', s).single()
selectById(s) == single({p \in Catalog : p.id = s})

\* the query the validator issues for a parsed product id
QueryFor(actualProductId) ==
    IF actualProductId.kind = "number"
    THEN [column |-> "legacy_id", value |-> actualProductId.n]
    ELSE [column |-> "id", value |-> actualProductId.s]

ProductFor(actualProductId) ==
    IF actualProductId.kind = "number"
    THEN selectByLegacyId(actualProductId.n)
    ELSE selectById(actualProductId.s)

ClientItem(id, price) ==
    [id |-> id, name |-> "client-name", category |-> "Food", price |-> price]

\* basket lines a client may send: id and price (a decimal, in cents)
ClientItems ==
    { ClientItem(cartPrefix \o <<"4","2","_","v","_","1","2","3","_","x","y","z">>, 10000),
      ClientItem(cartPrefix \o <<"4","2","_","v","_","1","2","3","_","x","y","z">>, 10100),
      ClientItem(cartPrefix \o <<"4","2","_","v","_","1","2","3","_","x","y","z">>, 10101),
      ClientItem(uuidB, 101),
      ClientItem(<<"7","7">>, 10),
      ClientItem(cartPrefix \o <<"7","8","_","x">>, 20),
      ClientItem(cartPrefix \o uuidA \o <<"_","v","_","1","_","1">>, 10000),
      ClientItem(cartPrefix \o uuidC \o <<"_","v">>, 10),
      ClientItem(<<"n","o","t","-","a","n","-","i","d">>, 500),
      ClientItem(cartPrefix \o <<"9","9","9","_","v">>, 100) }

\* amounts a client may send (decimals, in cents)
ClientAmounts == {10, 11, 30, 10000, 10001}

MaxItems == 2

Baskets == UNION { [1..n -> ClientItems] : n \in 1..MaxItems }

\* request bodies: unreadable JSON, bodies the schema rejects (another field
\* missing, an empty basket, a non-positive amount), and well-formed ones
Bodies ==
    { [readable |-> FALSE, fieldsOk |-> FALSE, basketItems |-> <<>>, amount |-> 0],
      [readable |-> TRUE,  fieldsOk |-> FALSE,
       basketItems |-> <<ClientItem(<<"7","7">>, 10)>>, amount |-> 10],
      [readable |-> TRUE,  fieldsOk |-> TRUE, basketItems |-> <<>>, amount |-> 10],
      [readable |-> TRUE,  fieldsOk |-> TRUE,
       basketItems |-> <<ClientItem(<<"7","7">>, 10)>>, amount |-> 0] }
    \cup
    { [readable |-> TRUE, fieldsOk |-> TRUE, basketItems |-> b, amount |-> a] :
        b \in Baskets, a \in ClientAmounts }

\* paymentRequestSchema.safeParse(body).success
SchemaOk(b) ==
    /\ b.fieldsOk
    /\ b.amount > 0
    /\ Len(b.basketItems) >= 1
    /\ \A k \in 1..Len(b.basketItems) : b.basketItems[k].price > 0

\* validationResult.data: the body with its decimals read as numbers
ParsedRequest(b) ==
    [basketItems |-> [k \in 1..Len(b.basketItems) |->
                        [b.basketItems[k] EXCEPT !.price = Dec(b.basketItems[k].price)]],
     amount      |-> Dec(b.amount)]

\* ------------------------------------------------------------------------
\* State of POST /api/customer/magic-login (its steps are further down)
\* ------------------------------------------------------------------------

VARIABLES
    mbody,          \* what request.json() yields (or that it cannot be read)
    nodeEnv,        \* process.env.NODE_ENV
    appUrl,         \* process.env.NEXT_PUBLIC_APP_URL ("" when not set)
    mpc,            \* the handler's position
    result,         \* what generateMagicLoginLink returned
    emailSent,      \* what sendMagicLoginEmail returned
    generateCalls,  \* the calls of generateMagicLoginLink
    sendCalls,      \* the calls of sendMagicLoginEmail
    mresponses      \* the responses returned

magicVars ==
    <<mbody, nodeEnv, appUrl, mpc, result, emailSent, generateCalls, sendCalls,
      mresponses>>

\* ------------------------------------------------------------------------
\* POST /api/payment/iyzico/initialize
\* ------------------------------------------------------------------------

VARIABLES
    body,             \* what request.json() yields (or that it cannot be read)
    pc,               \* the handler's position
    paymentRequest,   \* validationResult.data, rewritten by the handler
    i,                \* validateBasketPrices: index of the item being processed
    validatedItems,   \* validateBasketPrices: const validatedItems
    calculatedTotal,  \* validateBasketPrices: let calculatedTotal
    priceValidation,  \* what validateBasketPrices returned
    paymentResult,    \* what initiate3DSecurePayment returned
    checked,          \* per processed item: the parsed id and the verdict
    lookups,          \* the queries sent to products, in order
    gatewayCalls,     \* the requests handed to initiate3DSecurePayment
    inserts,          \* the inserts attempted, in order, with their outcome
    responses,        \* the responses returned
    events,           \* the order of lookups, calls, inserts, responses, logs
    thrown            \* where an exception was raised ("none" if nowhere)

payVars ==
    <<body, pc, paymentRequest, i, validatedItems, calculatedTotal,
      priceValidation, paymentResult, checked, lookups, gatewayCalls, inserts,
      responses, events, thrown>>

Unset == [unset |-> TRUE]

\* mutant of ItemAt: the basket is walked from its end
ItemAtReversed(basketItems, k) == basketItems[Len(basketItems) - k + 1]

\* for (const item of basketItems): the item of the k-th iteration
ItemAt(basketItems, k) == basketItems[k]

\* const tolerancePercentage = 0.01
tolerancePercentage == Dec(1)

\* priceDifference > (dbPrice * tolerancePercentage)
PriceManipulated(dbPrice, clientPrice) ==
    FGt(FAbsDiff(dbPrice, clientPrice), FMul(dbPrice, tolerancePercentage))

\* mutant of TotalManipulated: the per-item policy (1% of the total) is
\* applied to the total
TotalManipulatedRelative(validatedTotal, clientTotal) ==
    FGt(FAbsDiff(validatedTotal, clientTotal), FMul(validatedTotal, Dec(1)))

\* totalDifference > 0.01
TotalManipulated(validatedTotal, clientTotal) ==
    FGt(FAbsDiff(validatedTotal, clientTotal), Dec(1))

\* paymentRequest.basketItems = validatedItems; paymentRequest.amount = validatedTotal
WithValidatedItems(request, validation) ==
    [request EXCEPT !.basketItems = validation.validatedItems]

\* mutant of WithValidatedTotal: the client's amount is left in place
KeepsClientTotal(request, validatedTotal) == request

WithValidatedTotal(request, validatedTotal) ==
    [request EXCEPT !.amount = validatedTotal]

\* mutant of OnInsertThrow: no inner try, the exception reaches the outer catch
OnInsertThrowPropagates == "catch"

\* where the handler goes on when an insert throws: the inner catch logs
OnInsertThrow == "respond"

\* mutant of CatchResponse: the outer catch answers 400
CatchResponseBadRequest ==
    [status |-> 400, success |-> FALSE, error |-> "unexpected-server-error"]

\* the outer catch's response
CatchResponse ==
    [status |-> 500, success |-> FALSE, error |-> "unexpected-server-error"]

\* the response on a validateBasketPrices failure
SecurityResponse(message) ==
    [status |-> 400, success |-> FALSE, error |-> <<"security-check-failed", message>>]

\* what initiate3DSecurePayment may return
GatewayResults ==
    { [success |-> TRUE, paymentId |-> "pay-1", conversationId |-> "conv-1",
       htmlContent |-> "html", threeDSHtmlContent |-> "3ds-html"],
      [success |-> FALSE, conversationId |-> "conv-1",
       errorMessage |-> "card-declined", errorCode |-> "5006"],
      [success |-> FALSE, conversationId |-> "conv-1",
       errorMessage |-> "", errorCode |-> "5000"] }

Respond(r) ==
    /\ responses' = Append(responses, r)
    /\ events' = Append(events, "response")
    /\ pc' = "finally"

Throw(where) ==
    /\ thrown' = where
    /\ pc' = "catch"

PayInit ==
    /\ body \in Bodies
    /\ pc = "readBody"
    /\ paymentRequest = Unset
    /\ i = 0
    /\ validatedItems = <<>>
    /\ calculatedTotal = FZero
    /\ priceValidation = Unset
    /\ paymentResult = Unset
    /\ checked = <<>>
    /\ lookups = <<>>
    /\ gatewayCalls = <<>>
    /\ inserts = <<>>
    /\ responses = <<>>
    /\ events = <<>>
    /\ thrown = "none"

\* const body = await request.json()
ReadBody ==
    /\ pc = "readBody"
    /\ IF body.readable
       THEN pc' = "safeParse" /\ UNCHANGED thrown
       ELSE Throw("readBody")
    /\ UNCHANGED <<magicVars, body, paymentRequest, i, validatedItems, calculatedTotal,
                   priceValidation, paymentResult, checked, lookups,
                   gatewayCalls, inserts, responses, events>>

\* paymentRequestSchema.safeParse(body)
SafeParse ==
    /\ pc = "safeParse"
    /\ IF SchemaOk(body)
       THEN /\ paymentRequest' = ParsedRequest(body)
            /\ pc' = "createClient"
            /\ UNCHANGED <<responses, events>>
       ELSE /\ Respond([status |-> 400, success |-> FALSE,
                        error |-> "invalid-data-format"])
            /\ UNCHANGED paymentRequest
    /\ UNCHANGED <<magicVars, body, i, validatedItems, calculatedTotal, priceValidation,
                   paymentResult, checked, lookups, gatewayCalls, inserts, thrown>>

\* const supabase = await createSupabaseServerClient(), then the call of
\* validateBasketPrices up to its loop
CreateClient ==
    /\ pc = "createClient"
    /\ \E ok \in BOOLEAN :
          IF ok
          THEN /\ pc' = "validate"
               /\ i' = 1
               /\ validatedItems' = <<>>
               /\ calculatedTotal' = FZero
               /\ UNCHANGED thrown
          ELSE /\ Throw("createClient")
               /\ UNCHANGED <<i, validatedItems, calculatedTotal>>
    /\ UNCHANGED <<magicVars, body, paymentRequest, priceValidation, paymentResult, checked,
                   lookups, gatewayCalls, inserts, responses, events>>

\* validateBasketPrices returns a failure
Fail(actualProductId, verdict, message) ==
    /\ priceValidation' = [isValid |-> FALSE, message |-> message]
    /\ checked' = Append(checked, [actualProductId |-> actualProductId,
                                   verdict |-> verdict])
    /\ pc' = "checkValidation"
    /\ UNCHANGED <<i, validatedItems, calculatedTotal>>

\* one iteration of the loop of validateBasketPrices; the lookup returns the
\* row, returns no data, or throws (the function's own catch turns that into
\* a failure)
ValidateItem ==
    /\ pc = "validate"
    /\ i <= Len(paymentRequest.basketItems)
    /\ LET item            == ItemAt(paymentRequest.basketItems, i)
           actualProductId == parseCartItemId(item.id)
           product         == ProductFor(actualProductId)
           dbPrice         == Dec(product.price)
           clientPrice     == item.price
       IN  IF Falsy(actualProductId)
           THEN /\ Fail(actualProductId, "format",
                        [kind |-> "invalid-id-format", id |-> item.id])
                /\ UNCHANGED <<lookups, events, thrown>>
           ELSE /\ lookups' = Append(lookups, QueryFor(actualProductId))
                /\ events' = Append(events, "lookup")
                /\ \E throws \in BOOLEAN :
                      IF throws
                      THEN /\ Fail(actualProductId, "exception",
                                   [kind |-> "validation-error"])
                           /\ thrown' = "lookup"
                      ELSE /\ UNCHANGED thrown
                           /\ IF product = NoData
                              THEN Fail(actualProductId, "notfound",
                                        [kind |-> "product-not-found",
                                         name |-> item.name, id |-> item.id,
                                         productId |-> actualProductId])
                              ELSE IF PriceManipulated(dbPrice, clientPrice)
                              THEN Fail(actualProductId, "manipulation",
                                        [kind |-> "price-manipulation",
                                         name |-> product.name,
                                         dbPrice |-> dbPrice,
                                         clientPrice |-> clientPrice])
                              ELSE /\ validatedItems' =
                                         Append(validatedItems,
                                                [id |-> product.id,
                                                 name |-> product.name,
                                                 category |-> item.category,
                                                 price |-> dbPrice])
                                   /\ calculatedTotal' = FAdd(calculatedTotal, dbPrice)
                                   /\ checked' = Append(checked,
                                         [actualProductId |-> actualProductId,
                                          verdict |-> "ok"])
                                   /\ i' = i + 1
                                   /\ UNCHANGED <<pc, priceValidation>>
    /\ UNCHANGED <<magicVars, body, paymentRequest, paymentResult, gatewayCalls, inserts,
                   responses>>

\* the loop is over: validateBasketPrices returns the validated basket
ValidateDone ==
    /\ pc = "validate"
    /\ i > Len(paymentRequest.basketItems)
    /\ priceValidation' = [isValid |-> TRUE, validatedItems |-> validatedItems,
                           calculatedTotal |-> calculatedTotal]
    /\ pc' = "checkValidation"
    /\ UNCHANGED <<magicVars, body, paymentRequest, i, validatedItems, calculatedTotal,
                   paymentResult, checked, lookups, gatewayCalls, inserts,
                   responses, events, thrown>>

\* the handler's use of the result: reject, or overwrite the basket, check
\* the client's total and overwrite the amount
CheckValidation ==
    /\ pc = "checkValidation"
    /\ IF ~priceValidation.isValid
       THEN /\ Respond(SecurityResponse(priceValidation.message))
            /\ UNCHANGED paymentRequest
       ELSE LET validatedTotal == priceValidation.calculatedTotal
                clientTotal    == paymentRequest.amount
            IN  IF TotalManipulated(validatedTotal, clientTotal)
                THEN /\ paymentRequest' = WithValidatedItems(paymentRequest, priceValidation)
                     /\ Respond([status |-> 400, success |-> FALSE,
                                 error |-> <<"total-manipulation", validatedTotal,
                                             clientTotal>>])
                ELSE /\ paymentRequest' =
                           WithValidatedTotal(
                               WithValidatedItems(paymentRequest, priceValidation),
                               validatedTotal)
                     /\ pc' = "settings"
                     /\ UNCHANGED <<responses, events>>
    /\ UNCHANGED <<magicVars, body, i, validatedItems, calculatedTotal, priceValidation,
                   paymentResult, checked, lookups, gatewayCalls, inserts, thrown>>

\* const settings = getIyzicoSettingsFromEnv(), and createIyzicoService
LoadSettings ==
    /\ pc = "settings"
    /\ \E outcome \in {"settings", "null", "throws"} :
          CASE outcome = "settings" ->
                  pc' = "gateway" /\ UNCHANGED <<responses, events, thrown>>
            [] outcome = "null" ->
                  /\ Respond([status |-> 503, success |-> FALSE,
                              error |-> "payment-system-inactive"])
                  /\ UNCHANGED thrown
            [] outcome = "throws" ->
                  Throw("settings") /\ UNCHANGED <<responses, events>>
    /\ UNCHANGED <<magicVars, body, paymentRequest, i, validatedItems, calculatedTotal,
                   priceValidation, paymentResult, checked, lookups,
                   gatewayCalls, inserts>>

\* await iyzicoService.initiate3DSecurePayment(paymentRequest)
CallGateway ==
    /\ pc = "gateway"
    /\ gatewayCalls' = Append(gatewayCalls, paymentRequest)
    /\ events' = Append(events, "gateway")
    /\ \/ \E returned \in GatewayResults :
             /\ paymentResult' = returned
             /\ pc' = IF returned.success THEN "insertTransaction" ELSE "respond"
             /\ UNCHANGED thrown
       \/ Throw("gateway") /\ UNCHANGED paymentResult
    /\ UNCHANGED <<magicVars, body, paymentRequest, i, validatedItems, calculatedTotal,
                   priceValidation, checked, lookups, inserts, responses>>

Insert(table, next) ==
    \E outcome \in {"ok", "error", "throws"} :
       /\ inserts' = Append(inserts, [table |-> table, outcome |-> outcome,
                                      amount |-> paymentRequest.amount])
       /\ events' = Append(events, "insert")
       /\ IF outcome = "throws"
          THEN pc' = OnInsertThrow /\ thrown' = "insert"
          ELSE pc' = next /\ UNCHANGED thrown

\* supabase.from('payment_transactions').insert(..)
InsertTransaction ==
    /\ pc = "insertTransaction"
    /\ Insert("payment_transactions", "insertOrder")
    /\ UNCHANGED <<magicVars, body, paymentRequest, i, validatedItems, calculatedTotal,
                   priceValidation, paymentResult, checked, lookups,
                   gatewayCalls, responses>>

\* supabase.from('orders').insert(..)
InsertOrder ==
    /\ pc = "insertOrder"
    /\ Insert("orders", "respond")
    /\ UNCHANGED <<magicVars, body, paymentRequest, i, validatedItems, calculatedTotal,
                   priceValidation, paymentResult, checked, lookups,
                   gatewayCalls, responses>>

\* the response after the gateway call
RespondGateway ==
    /\ pc = "respond"
    /\ IF paymentResult.success
       THEN Respond([status |-> 200, success |-> TRUE,
                     data |-> [paymentId |-> paymentResult.paymentId,
                               conversationId |-> paymentResult.conversationId,
                               htmlContent |-> paymentResult.htmlContent,
                               threeDSHtmlContent |-> paymentResult.threeDSHtmlContent]])
       ELSE Respond([status |-> 400, success |-> FALSE,
                     error |-> IF paymentResult.errorMessage = ""
                               THEN "payment-could-not-start"
                               ELSE paymentResult.errorMessage,
                     errorCode |-> paymentResult.errorCode])
    /\ UNCHANGED <<magicVars, body, paymentRequest, i, validatedItems, calculatedTotal,
                   priceValidation, paymentResult, checked, lookups,
                   gatewayCalls, inserts, thrown>>

\* catch (error: any) of the handler
Catch ==
    /\ pc = "catch"
    /\ Respond(CatchResponse)
    /\ UNCHANGED <<magicVars, body, paymentRequest, i, validatedItems, calculatedTotal,
                   priceValidation, paymentResult, checked, lookups,
                   gatewayCalls, inserts, thrown>>

\* finally: the duration log
Finally ==
    /\ pc = "finally"
    /\ events' = Append(events, "duration")
    /\ pc' = "done"
    /\ UNCHANGED <<magicVars, body, paymentRequest, i, validatedItems, calculatedTotal,
                   priceValidation, paymentResult, checked, lookups,
                   gatewayCalls, inserts, responses, thrown>>

PayNext ==
    \/ ReadBody
    \/ SafeParse
    \/ CreateClient
    \/ ValidateItem
    \/ ValidateDone
    \/ CheckValidation
    \/ LoadSettings
    \/ CallGateway
    \/ InsertTransaction
    \/ InsertOrder
    \/ RespondGateway
    \/ Catch
    \/ Finally

\* the handler is not running
PayIdle ==
    /\ body = [readable |-> FALSE, fieldsOk |-> FALSE, basketItems |-> <<>>,
               amount |-> 0]
    /\ pc = "idle"
    /\ paymentRequest = Unset
    /\ i = 0
    /\ validatedItems = <<>>
    /\ calculatedTotal = FZero
    /\ priceValidation = Unset
    /\ paymentResult = Unset
    /\ checked = <<>>
    /\ lookups = <<>>
    /\ gatewayCalls = <<>>
    /\ inserts = <<>>
    /\ responses = <<>>
    /\ events = <<>>
    /\ thrown = "none"

\* ------------------------------------------------------------------------
\* POST /api/customer/magic-login
\* ------------------------------------------------------------------------

\* addresses z.string().email() accepts
WellFormedEmails == {"user@example.com", "musteri@catkapinda.com.tr"}

\* request bodies: unreadable JSON, no email field, a malformed address,
\* well-formed addresses
MagicBodies ==
    { [readable |-> FALSE, email |-> ""],
      [readable |-> TRUE, email |-> ""],
      [readable |-> TRUE, email |-> "not-an-email"] }
    \cup { [readable |-> TRUE, email |-> e] : e \in WellFormedEmails }

NodeEnvs == {"development", "production", "test", ""}

AppUrls == {"", "https://catkapinda.com.tr"}

\* undefined
Undefined == <<>>

\* the two answers of sendMagicLoginEmail: true, false
Acknowledged == [sent |-> TRUE]

NotDelivered == [sent |-> FALSE]

\* magicLoginRequestSchema.safeParse(body).success
EmailOk(b) == b.email \in WellFormedEmails

\* process.env.NEXT_PUBLIC_APP_URL || 'http://localhost:3000'
baseUrl == IF appUrl = "" THEN "http://localhost:3000" ELSE appUrl

\* mutant of EchoedLoginUrl: the link is echoed whatever the mode
EchoedAlways(env, loginUrl) == loginUrl

\* process.env.NODE_ENV === 'development' ? result.loginUrl : undefined
EchoedLoginUrl(env, loginUrl) ==
    IF env = "development" THEN loginUrl ELSE Undefined

MagicRespond(r) ==
    /\ mresponses' = Append(mresponses, r)
    /\ mpc' = "done"

MagicInit ==
    /\ mbody \in MagicBodies
    /\ nodeEnv \in NodeEnvs
    /\ appUrl \in AppUrls
    /\ mpc = "readBody"
    /\ result = Unset
    /\ emailSent = Unset
    /\ generateCalls = <<>>
    /\ sendCalls = <<>>
    /\ mresponses = <<>>

MagicIdle ==
    /\ mbody = [readable |-> FALSE, email |-> ""]
    /\ nodeEnv = ""
    /\ appUrl = ""
    /\ mpc = "idle"
    /\ result = Unset
    /\ emailSent = Unset
    /\ generateCalls = <<>>
    /\ sendCalls = <<>>
    /\ mresponses = <<>>

\* const body = await request.json()
MagicReadBody ==
    /\ mpc = "readBody"
    /\ mpc' = IF mbody.readable THEN "safeParse" ELSE "catch"
    /\ UNCHANGED <<payVars, mbody, nodeEnv, appUrl, result, emailSent,
                   generateCalls, sendCalls, mresponses>>

\* magicLoginRequestSchema.safeParse(body)
MagicSafeParse ==
    /\ mpc = "safeParse"
    /\ IF EmailOk(mbody)
       THEN mpc' = "generate" /\ UNCHANGED mresponses
       ELSE MagicRespond([status |-> 400, success |-> FALSE,
                          error |-> "invalid-email", loginUrl |-> Undefined])
    /\ UNCHANGED <<payVars, mbody, nodeEnv, appUrl, result, emailSent,
                   generateCalls, sendCalls>>

\* const result = await generateMagicLoginLink(email, baseUrl)
GenerateLink ==
    /\ mpc = "generate"
    /\ generateCalls' = Append(generateCalls, [email |-> mbody.email,
                                               baseUrl |-> baseUrl])
    /\ \/ /\ result' = [success |-> TRUE, loginUrl |-> <<baseUrl, "/magic-login?token">>]
          /\ mpc' = "send"
          /\ UNCHANGED mresponses
       \/ /\ result' = [success |-> FALSE, error |-> "link-not-created"]
          /\ MagicRespond([status |-> 500, success |-> FALSE,
                           error |-> "link-not-created", loginUrl |-> Undefined])
       \/ /\ mpc' = "catch"
          /\ UNCHANGED <<result, mresponses>>
    /\ UNCHANGED <<payVars, mbody, nodeEnv, appUrl, emailSent, sendCalls>>

\* const emailSent = await sendMagicLoginEmail(email, result.loginUrl!)
SendEmail ==
    /\ mpc = "send"
    /\ sendCalls' = Append(sendCalls, [email |-> mbody.email,
                                       loginUrl |-> result.loginUrl])
    /\ \/ /\ emailSent' = Acknowledged
          /\ mpc' = "success"
          /\ UNCHANGED mresponses
       \/ /\ emailSent' = NotDelivered
          /\ MagicRespond([status |-> 500, success |-> FALSE,
                           error |-> "email-not-sent", loginUrl |-> Undefined])
       \/ /\ mpc' = "catch"
          /\ UNCHANGED <<emailSent, mresponses>>
    /\ UNCHANGED <<payVars, mbody, nodeEnv, appUrl, result, generateCalls>>

\* the success response
MagicSuccess ==
    /\ mpc = "success"
    /\ MagicRespond([status |-> 200, success |-> TRUE,
                     message |-> "link-created-and-sent",
                     loginUrl |-> EchoedLoginUrl(nodeEnv, result.loginUrl)])
    /\ UNCHANGED <<payVars, mbody, nodeEnv, appUrl, result, emailSent,
                   generateCalls, sendCalls>>

\* catch (error: any)
MagicCatch ==
    /\ mpc = "catch"
    /\ MagicRespond([status |-> 500, success |-> FALSE,
                     error |-> "server-error", loginUrl |-> Undefined])
    /\ UNCHANGED <<payVars, mbody, nodeEnv, appUrl, result, emailSent,
                   generateCalls, sendCalls>>

MagicNext ==
    \/ MagicReadBody
    \/ MagicSafeParse
    \/ GenerateLink
    \/ SendEmail
    \/ MagicSuccess
    \/ MagicCatch

\* ------------------------------------------------------------------------
\* Specifications: one request to the payment handler; one request to the
\* magic-login handler.  The handlers share no state.
\* ------------------------------------------------------------------------

vars == <<payVars, magicVars>>

Init == PayInit /\ MagicIdle

Next == PayNext

Spec == Init /\ [][Next]_vars

MagicStart == MagicInit /\ PayIdle

MagicSpec == MagicStart /\ [][MagicNext]_vars

\* ------------------------------------------------------------------------
\* Properties
\* ------------------------------------------------------------------------

\* what the properties say about the request, read off the body sent
Items == body.basketItems

ParsedId(k) == parseCartItemId(Items[k].id)

Product(k) == ProductFor(ParsedId(k))

Resolves(k) == ~Falsy(ParsedId(k)) /\ Product(k) # NoData

\* the k-th item is unparseable, unknown, or priced beyond the tolerance
BadItem(k) ==
    \/ ~Resolves(k)
    \/ PriceManipulated(Dec(Product(k).price), Dec(Items[k].price))

\* the position of the first such item, 0 when there is none
FirstBad ==
    IF \E k \in 1..Len(Items) : BadItem(k)
    THEN CHOOSE k \in 1..Len(Items) : BadItem(k) /\ \A j \in 1..(k - 1) : ~BadItem(j)
    ELSE 0

\* the entry the validated basket holds for the k-th item
Trusted(k) ==
    [id |-> Product(k).id, name |-> Product(k).name,
     category |-> Items[k].category, price |-> Dec(Product(k).price)]

\* left-to-right sum of the prices of a basket, as numbers
RECURSIVE SumOfPrices(_, _)
SumOfPrices(basket, n) ==
    IF n = 0 THEN FZero ELSE FAdd(SumOfPrices(basket, n - 1), basket[n].price)

\* the sum of the catalog prices of the first n items, in cents
RECURSIVE CatalogCents(_)
CatalogCents(n) == IF n = 0 THEN 0 ELSE CatalogCents(n - 1) + Product(n).price

AbsInt(x) == IF x < 0 THEN 0 - x ELSE x

\* the handler answered 400 before calling the gateway
Rejected ==
    /\ responses # <<>>
    /\ responses[1].status = 400
    /\ gatewayCalls = <<>>

Answered == pc \in {"finally", "done"}

\* C1: every request handed to initiate3DSecurePayment carries, item by
\* item, the catalog's id, name and price of the product the item resolved
\* to (with the client's category), and as amount the sum of those catalog
\* prices; client-sent prices and the client-sent amount never reach it.
C1_GatewaySeesCatalogPrices ==
    \A c \in 1..Len(gatewayCalls) :
       /\ Len(gatewayCalls[c].basketItems) = Len(Items)
       /\ \A k \in 1..Len(Items) :
             Resolves(k) /\ gatewayCalls[c].basketItems[k] = Trusted(k)
       /\ gatewayCalls[c].amount =
             SumOfPrices(gatewayCalls[c].basketItems, Len(Items))

\* the gateway was called for a basket in which the client's price of an
\* item differs from the catalog's
C1_Witness ==
    /\ gatewayCalls # <<>>
    /\ \E k \in 1..Len(Items) :
          gatewayCalls[1].basketItems[k].price # Dec(Items[k].price)

\* C2: once validateBasketPrices has reported a failure, or has succeeded
\* with a total the total check rejects, the gateway is never called, no
\* insert is attempted, and the one response is a 400; and no basket with a
\* bad item ever reaches the gateway or an insert.
C2_RejectedNeverReachesGateway ==
    /\ (/\ priceValidation # Unset
        /\ \/ ~priceValidation.isValid
           \/ FGt(FAbsDiff(priceValidation.calculatedTotal, Dec(body.amount)),
                  Dec(1)))
       => /\ gatewayCalls = <<>>
          /\ inserts = <<>>
          /\ pc \in {"checkValidation", "finally", "done"}
          /\ (Answered => Len(responses) = 1 /\ responses[1].status = 400)
    /\ (paymentRequest # Unset /\ FirstBad # 0)
       => gatewayCalls = <<>> /\ inserts = <<>>

\* a request whose items all validated but whose total was rejected got
\* its 400
C2_Witness ==
    /\ pc = "done"
    /\ priceValidation # Unset
    /\ priceValidation.isValid
    /\ Rejected

\* the queries the validator issues for items 1..n of the request, in order
RECURSIVE QueriesUpTo(_)
QueriesUpTo(n) ==
    IF n = 0 THEN <<>>
    ELSE IF Falsy(ParsedId(n)) THEN QueriesUpTo(n - 1)
    ELSE Append(QueriesUpTo(n - 1), QueryFor(ParsedId(n)))

\* the failure message for the k-th item
MessageFor(k) ==
    IF Falsy(ParsedId(k))
    THEN [kind |-> "invalid-id-format", id |-> Items[k].id]
    ELSE IF Product(k) = NoData
    THEN [kind |-> "product-not-found", name |-> Items[k].name,
          id |-> Items[k].id, productId |-> ParsedId(k)]
    ELSE [kind |-> "price-manipulation", name |-> Product(k).name,
          dbPrice |-> Dec(Product(k).price), clientPrice |-> Dec(Items[k].price)]

\* the last item validateBasketPrices may touch
LastTouched == IF FirstBad = 0 THEN Len(Items) ELSE FirstBad

IsPrefix(s, t) == Len(s) <= Len(t) /\ s = SubSeq(t, 1, Len(s))

\* C3: the validator takes the items one at a time in input order and
\* stops at the first bad one, item k: the lookups issued are those of
\* items 1..k in order (none for an unparseable id), nothing after item k is
\* parsed, looked up or compared, the failure names item k, and a failure
\* carries neither validatedItems nor calculatedTotal.
C3_FirstFailureStops ==
    paymentRequest # Unset =>
       /\ IsPrefix(lookups, QueriesUpTo(LastTouched))
       /\ Len(checked) <= LastTouched
       /\ \A k \in 1..Len(checked) : checked[k].actualProductId = ParsedId(k)
       /\ (priceValidation # Unset /\ ~priceValidation.isValid)
          => /\ DOMAIN priceValidation = {"isValid", "message"}
             /\ thrown # "lookup"
                => /\ FirstBad # 0
                   /\ Len(checked) = FirstBad
                   /\ lookups = QueriesUpTo(FirstBad)
                   /\ priceValidation.message = MessageFor(FirstBad)

\* a basket of at least two items failed on a price mismatch at its second
\* item, after two lookups
C3_Witness ==
    /\ priceValidation # Unset
    /\ ~priceValidation.isValid
    /\ Len(Items) >= 2
    /\ FirstBad = 2
    /\ priceValidation.message.kind = "price-manipulation"
    /\ Len(lookups) = 2

\* every item resolves, every client price is within 1% of the catalog
\* price, and the client amount is within 0.01 of the sum of the catalog
\* prices (decimals, compared in cents)
WithinTolerances ==
    /\ \A k \in 1..Len(Items) :
          /\ Resolves(k)
          /\ 100 * AbsInt(Product(k).price - Items[k].price) <= Product(k).price
    /\ AbsInt(CatalogCents(Len(Items)) - body.amount) <= 1

\* C4: for a basket within the tolerances, validation and the total check
\* succeed, the validated items are the catalog's entries in input order,
\* and the total is the sum of the catalog prices.
C4_WithinTolerancesAccepted ==
    (/\ paymentRequest # Unset
     /\ WithinTolerances
     /\ thrown # "lookup"
     /\ priceValidation # Unset
     /\ pc # "checkValidation")
    => /\ priceValidation.isValid
       /\ priceValidation.validatedItems = [k \in 1..Len(Items) |-> Trusted(k)]
       /\ priceValidation.calculatedTotal =
             SumOfPrices(priceValidation.validatedItems, Len(Items))
       /\ ~Rejected

\* the product reference of a cart item id: the id itself, or the second
\* '_'-separated segment of a cart_ token
ProductRef(id) == IF startsWith(id, cartPrefix) THEN split(id, "_")[2] ELSE id

\* C5: an id whose product reference is a canonical UUID is decoded to that
\* UUID string, and the lookup for it is by id.
C5_UuidDecodedAsUuid ==
    \A k \in 1..Len(checked) :
       uuidPattern(ProductRef(Items[k].id))
       => /\ checked[k].actualProductId = StringId(ProductRef(Items[k].id))
          /\ (k <= Len(lookups) => lookups[k].column = "id")

\* C6: an item whose product was found is rejected for its price if and
\* only if the difference of catalog and client price is strictly greater
\* than 1% of the catalog price (decimals, compared in cents).
C6_PerItemTolerance ==
    \A k \in 1..Len(checked) :
       checked[k].verdict \in {"ok", "manipulation"}
       => (checked[k].verdict = "manipulation"
           <=> 100 * AbsInt(Product(k).price - Items[k].price) > Product(k).price)

\* C7: a validated basket is rejected by the total check if and only if the
\* validated total and the client amount differ by strictly more than 0.01
\* (decimals, compared in cents).
C7_TotalTolerance ==
    (/\ priceValidation # Unset
     /\ priceValidation.isValid
     /\ pc # "checkValidation")
    => (Rejected <=> AbsInt(CatalogCents(Len(Items)) - body.amount) > 1)

\* every "insert" event comes after a "gateway" event
InsertsFollowGateway ==
    \A n \in 1..Len(events) :
       events[n] = "insert" => \E g \in 1..(n - 1) : events[g] = "gateway"

\* C8: inserts are attempted only after the gateway returned success; on
\* success the response is 200 with the gateway's paymentId, conversationId
\* and HTML whatever the inserts did; on failure it is 400 with the
\* gateway's message (a fixed text when it gave none) and code, and nothing
\* is inserted.
C8_GatewayOutcomeDecidesResponse ==
    /\ inserts # <<>> => (paymentResult # Unset /\ paymentResult.success)
    /\ InsertsFollowGateway
    /\ (pc = "done" /\ paymentResult # Unset /\ paymentResult.success)
       => responses =
             << [status |-> 200, success |-> TRUE,
                 data |-> [paymentId |-> paymentResult.paymentId,
                           conversationId |-> paymentResult.conversationId,
                           htmlContent |-> paymentResult.htmlContent,
                           threeDSHtmlContent |-> paymentResult.threeDSHtmlContent]] >>
    /\ (pc = "done" /\ paymentResult # Unset /\ ~paymentResult.success)
       => /\ inserts = <<>>
          /\ Len(responses) = 1
          /\ responses[1].status = 400
          /\ responses[1].errorCode = paymentResult.errorCode
          /\ (paymentResult.errorMessage # ""
              => responses[1].error = paymentResult.errorMessage)

\* the gateway reported success, an insert threw, and the answer is the 200
C8_Witness ==
    /\ pc = "done"
    /\ paymentResult # Unset
    /\ paymentResult.success
    /\ \E n \in 1..Len(inserts) : inserts[n].outcome = "throws"
    /\ responses[1].status = 200

Count(seq, x) == Cardinality({n \in 1..Len(seq) : seq[n] = x})

\* exactly one response, then the duration log, and nothing after it
OneResponseThenLog ==
    /\ Len(responses) <= 1
    /\ Count(events, "response") = Len(responses)
    /\ (pc = "done"
        => /\ Len(responses) = 1
           /\ Len(events) >= 2
           /\ events[Len(events) - 1] = "response"
           /\ events[Len(events)] = "duration"
           /\ Count(events, "duration") = 1)
    /\ (pc # "done" => Count(events, "duration") = 0)

\* C9 as stated: an exception raised outside the persistence step, a
\* catalog lookup's included, ends in the generic 500.
C9_EveryExceptionYields500 ==
    (pc = "done" /\ thrown \in {"readBody", "createClient", "lookup", "settings", "gateway"})
    => /\ Len(responses) = 1
       /\ responses[1].status = 500

\* C9 as amended: an exception raised while reading the body, creating the
\* database client, loading the settings or calling the gateway ends in the
\* generic 500; an exception raised by a catalog lookup is caught inside
\* validateBasketPrices and ends in the 400 of a failed validation, the
\* gateway not called; every execution ends with exactly one response
\* followed by the duration log.
C9_ExceptionsAmended ==
    /\ OneResponseThenLog
    /\ (pc = "done" /\ thrown \in {"readBody", "createClient", "settings", "gateway"})
       => /\ responses[1].status = 500
          /\ responses[1].error = "unexpected-server-error"
    /\ (pc = "done" /\ thrown = "lookup")
       => /\ responses[1] =
                [status |-> 400, success |-> FALSE,
                 error |-> <<"security-check-failed", [kind |-> "validation-error"]>>]
          /\ gatewayCalls = <<>>
          /\ inserts = <<>>

\* a lookup threw and the request was answered 400
C9_Witness ==
    /\ pc = "done"
    /\ thrown = "lookup"
    /\ responses[1].status = 400

\* C10: a response carries the login link only if the email passed the
\* schema, the link was generated successfully, the email was then sent and
\* acknowledged, and the process runs in development mode (so never in
\* production); the email is never sent before a link was generated; a
\* failed send is a 500 with the delivery-failure message and no link; an
\* invalid email is a 400 with neither collaborator called.
C10_LinkOnlyAfterSendOutsideProduction ==
    /\ \A n \in 1..Len(mresponses) :
          mresponses[n].loginUrl # Undefined
          => /\ EmailOk(mbody)
             /\ result # Unset
             /\ result.success
             /\ mresponses[n].loginUrl = result.loginUrl
             /\ Len(sendCalls) = 1
             /\ sendCalls[1].loginUrl = result.loginUrl
             /\ emailSent = Acknowledged
             /\ nodeEnv # "production"
             /\ nodeEnv = "development"
    /\ sendCalls # <<>>
       => /\ Len(generateCalls) = 1
          /\ result # Unset
          /\ result.success
    /\ emailSent = NotDelivered
       => /\ mresponses = << [status |-> 500, success |-> FALSE,
                              error |-> "email-not-sent", loginUrl |-> Undefined] >>
    /\ (mpc = "done" /\ mbody.readable /\ ~EmailOk(mbody))
       => /\ Len(mresponses) = 1
          /\ mresponses[1].status = 400
          /\ generateCalls = <<>>
          /\ sendCalls = <<>>
    /\ Len(mresponses) <= 1

\* the email was sent in production and the 200 carries no link
C10_Witness ==
    /\ mpc = "done"
    /\ nodeEnv = "production"
    /\ emailSent = Acknowledged
    /\ mresponses[1].status = 200
    /\ mresponses[1].loginUrl = Undefined
====
